---- MODULE Spec2Model ----
(***************************************************************************)
(* Model of the realtime handler of xwax (src/realtime.c): registration of *)
(* devices and controllers, rt_start / rt_stop on the owner thread, and    *)
(* rt_main on the dispatch thread.                                         *)
(*                                                                         *)
(* struct rt is declared in realtime.h; realtime.c fixes how its fields    *)
(* are used: three tables (dv, ctl, pt) with their counts (ndv, nctl,      *)
(* npt), the flag finished, the semaphore sem and the thread handle ph.    *)
(* The element counts of the tables are parameters of the model; sizeof of *)
(* a table is its element count times the size of one element in bytes.    *)
(***************************************************************************)
EXTENDS Integers, Sequences, FiniteSets, TLC

\* ---------------------------------------------------------------- bounds
\* Element counts of the tables dv[] and ctl[], and of pt[], of struct rt.
CAP_DEV == 2
CAP_CTL == CAP_DEV
CAP_PT == 2
\* Bytes per table element (a pointer and a struct pollfd have the same size
\* on LP64), scaled down; only "more than one byte per element" matters.
ElemBytes == 2
\* Most poll entries one device reports.
MaxHandles == 2
\* Successful poll() returns per dispatch thread.
MaxCycles == 2

\* ------------------------------------------------------------- constants
SizeofDv == CAP_DEV * ElemBytes
SizeofCtl == CAP_CTL * ElemBytes
SizeofPt == CAP_PT * ElemBytes

\* realtime.c only stores and passes on the device and controller pointers:
\* the k-th device (controller) handed to a table is named k.
Devices == 1..SizeofDv
Controllers == 1..SizeofCtl
\* Threads: the owner (the thread that calls rt_global_init and the rt_*
\* functions), the dispatch threads pthread_create can make, and one more
\* thread of the application.
OWNER == 0
TIDs == {1, 2}
OTHER_THREAD == 3
AllThreads == {OWNER, OTHER_THREAD} \cup TIDs

Min(a, b) == IF a < b THEN a ELSE b
Max(a, b) == IF a > b THEN a ELSE b

VARIABLES
    finished, ndv, dv, nctl, ctl, npt, pt, sem, ph,   \* struct rt
    key,                 \* thread-specific value of the pthread key
    ownerPc, ownerN,     \* owner thread: position and loop index n
    ret,                 \* API call completed last and its return value
    rtPc, rtN,           \* dispatch threads: position and loop index n
    aborted,             \* the process was terminated (abort() or a fault)
    \* ---- observations of the calls made
    lastAdd,             \* latest rt_add_device: device, device_pollfds result
    startLog, stopLog,   \* device_start / device_stop calls of rt_start, rt_stop
    nStart, nStop,       \* calls of rt_start / rt_stop so far
    startFin,            \* value of finished when rt_start was called last
    stopWaits,           \* waits when rt_stop was called last
    startThread,         \* thread created by the latest rt_start (0: none)
    history,             \* rt_start / rt_stop calls completed, with results
    gate,                \* operations on sem during the latest rt_start
    hlog,                \* per thread: controller_handle / device_handle calls
    waits,               \* per thread: number of successful poll() returns
    lastPoll,            \* per thread: outcome of the latest poll()
    elevated,            \* per thread: outcome of raise_priority
    lastCheck            \* latest rt_not_allowed call: thread and outcome

tables == <<ndv, dv, nctl, ctl, npt, pt>>
rtFields == <<finished, tables, sem, ph>>
ownerVars == <<ownerPc, ownerN, ret>>
threadVars == <<rtPc, rtN, key>>
ownerObs == <<startLog, stopLog, nStart, startFin, nStop, stopWaits,
             startThread, history>>
threadObs == <<hlog, waits, lastPoll, elevated>>
obsVars == <<lastAdd, ownerObs, gate, threadObs, lastCheck>>
vars == <<rtFields, ownerVars, threadVars, aborted, obsVars>>

NoRet == [fn |-> "none", val |-> 0]
Ret(f, v) == [fn |-> f, val |-> v]
NoAdd == [dev |-> 0, asked |-> FALSE, z |-> 0]
NoGate == [inits |-> 0, posts |-> 0, waits |-> 0, destroys |-> 0]
NoCheck == [thread |-> OTHER_THREAD, fatal |-> FALSE, made |-> FALSE]

\* rt_global_init: the key holds false; threads created later start with
\* the null value, which reads as false.
rt_global_init == key = [t \in AllThreads |-> FALSE]

rt_init ==
    /\ finished = FALSE
    /\ ndv = 0 /\ dv = <<>>
    /\ nctl = 0 /\ ctl = <<>>
    /\ npt = 0 /\ pt = <<>>
    /\ sem = [live |-> FALSE, val |-> 0]
    /\ ph = 0

Init ==
    /\ rt_global_init
    /\ rt_init
    /\ ownerPc = "idle" /\ ownerN = 0 /\ ret = NoRet
    /\ rtPc = [t \in TIDs |-> "none"]
    /\ rtN = [t \in TIDs |-> 0]
    /\ aborted = FALSE
    /\ lastAdd = NoAdd
    /\ startLog = <<>> /\ stopLog = <<>>
    /\ nStart = 0 /\ nStop = 0
    /\ startFin = FALSE /\ stopWaits = [t \in TIDs |-> 0]
    /\ startThread = 0
    /\ history = <<>>
    /\ gate = NoGate
    /\ hlog = [t \in TIDs |-> <<>>]
    /\ waits = [t \in TIDs |-> 0]
    /\ lastPoll = [t \in TIDs |-> "none"]
    /\ elevated = [t \in TIDs |-> "unknown"]
    /\ lastCheck = NoCheck

\* ------------------------------------------------------------ registration
\* tbl[idx] = v for a C table held as the sequence of the entries written
\* so far (C index idx is position idx + 1; 0 stands for an entry that was
\* never written).
Store(tbl, idx, v) ==
    [i \in 1..Max(Len(tbl), idx + 1) |->
        IF i = idx + 1 THEN v ELSE IF i <= Len(tbl) THEN tbl[i] ELSE 0]

\* device_pollfds(dv, pe, z): -1, or the number of entries written, at most
\* the limit z it was given.
device_pollfds(limit) == {-1} \cup (0..Min(MaxHandles, limit))

\* A store at C index idx lies outside a table of cap elements.
OutOfTable(idx, cap) == idx >= cap

\* The process is killed (a fault, or abort()); nothing else changes.
Fault ==
    /\ aborted' = TRUE
    /\     /\ UNCHANGED <<rtFields, ownerVars, threadVars, obsVars>>

\* The size of the device table as rt_add_device tests it.
DeviceTableFull == ndv = SizeofDv

\* Variant: the device is entered in the table before it is asked for its
\* poll entries, and stays there when it fails to report them.
rt_add_device_store_first(d, z) ==
    /\ ownerPc = "idle" /\ ~aborted
    /\ IF DeviceTableFull
       THEN /\ ret' = Ret("rt_add_device", -1)
            /\ lastAdd' = [dev |-> d, asked |-> FALSE, z |-> 0]
            /\             /\ UNCHANGED <<rtFields, aborted>>
       ELSE /\ z \in device_pollfds(SizeofPt - npt)
            /\ dv' = Store(dv, ndv, d)
            /\ ndv' = ndv + 1
            /\ npt' = IF z = -1 THEN npt ELSE npt + z
            /\ pt' = pt \o [i \in 1..z |-> "pollfd"]
            /\ ret' = Ret("rt_add_device", IF z = -1 THEN -1 ELSE 0)
            /\ lastAdd' = [dev |-> d, asked |-> TRUE, z |-> z]
            /\ UNCHANGED <<finished, nctl, ctl, sem, ph, aborted>>
    /\ UNCHANGED <<ownerPc, ownerN, threadVars, ownerObs, gate, threadObs,
                   lastCheck>>

rt_add_device(d, z) ==
    /\ ownerPc = "idle" /\ ~aborted
    /\ IF DeviceTableFull
       THEN /\ ret' = Ret("rt_add_device", -1)
            /\ lastAdd' = [dev |-> d, asked |-> FALSE, z |-> 0]
            /\             /\ UNCHANGED <<rtFields, aborted>>
       ELSE /\ z \in device_pollfds(SizeofPt - npt)
            /\ IF z = -1
               THEN /\ ret' = Ret("rt_add_device", -1)
                    /\ lastAdd' = [dev |-> d, asked |-> TRUE, z |-> z]
                    /\                     /\ UNCHANGED <<rtFields, aborted>>
               ELSE \/ /\ npt' = npt + z
                       /\ pt' = pt \o [i \in 1..z |-> "pollfd"]
                       /\ dv' = Store(dv, ndv, d)
                       /\ ndv' = ndv + 1
                       /\ ret' = Ret("rt_add_device", 0)
                       /\ lastAdd' = [dev |-> d, asked |-> TRUE, z |-> z]
                       /\ UNCHANGED <<finished, nctl, ctl, sem, ph, aborted>>
                    \/ /\ OutOfTable(ndv, CAP_DEV)
                          \/ (z > 0 /\ OutOfTable(npt + z - 1, CAP_PT))
                       /\ aborted' = TRUE
                       /\ UNCHANGED <<rtFields, ret, lastAdd>>
    /\ UNCHANGED <<ownerPc, ownerN, threadVars, ownerObs, gate, threadObs,
                   lastCheck>>

rt_add_controller(c) ==
    /\ ownerPc = "idle" /\ ~aborted
    /\ IF nctl = SizeofCtl
       THEN /\ ret' = Ret("rt_add_controller", -1)
            /\             /\ UNCHANGED <<rtFields, aborted>>
       ELSE \/ /\ ctl' = Store(ctl, nctl, c)
               /\ nctl' = nctl + 1
               /\ ret' = Ret("rt_add_controller", 0)
               /\ UNCHANGED <<finished, ndv, dv, npt, pt, sem, ph, aborted>>
            \/ /\ OutOfTable(nctl, CAP_CTL)
               /\ aborted' = TRUE
               /\                /\ UNCHANGED <<rtFields, ret>>
    /\     /\ UNCHANGED <<ownerPc, ownerN, threadVars, obsVars>>

\* Registration happens before the handler is started or stopped.
Registering == nStart = 0 /\ nStop = 0

AddDevice ==
    \E d \in Devices, z \in -1..MaxHandles : d = ndv + 1 /\ rt_add_device(d, z)
AddController ==
    \E c \in Controllers : c = nctl + 1 /\ rt_add_controller(c)

\* ----------------------------------------------------------------- threads
Running(t) == rtPc[t] \notin {"none", "exit", "joined"}
FreshThread ==
    CHOOSE t \in TIDs :
        rtPc[t] = "none" /\ \A u \in TIDs : rtPc[u] = "none" => t <= u

\* The owner returns from the API call fn with value r.
Return(fn, r) ==
    /\ ownerPc' = "idle"
    /\ ret' = Ret(fn, r)
    /\ history' = Append(history, Ret(fn, r))

\* pthread_join(rt->ph) as the last step of the API call fn, which then
\* returns r.  Joining a handle that names no joinable thread is undefined:
\* the call reports an error (the caller aborts), faults, or returns 0.
pthread_join(fn, r) ==
    IF ph \in TIDs /\ rtPc[ph] \notin {"none", "joined"}
    THEN /\ rtPc[ph] = "exit"
         /\ rtPc' = [rtPc EXCEPT ![ph] = "joined"]
         /\ Return(fn, r)
         /\ UNCHANGED <<rtFields, ownerN, rtN, key, aborted, lastAdd,
                        startLog, stopLog, nStart, startFin, nStop, stopWaits,
                        startThread, gate, threadObs, lastCheck>>
    ELSE \/ Fault
         \/ /\ Return(fn, r)
            /\ UNCHANGED <<rtFields, ownerN, threadVars, aborted, lastAdd,
                           startLog, stopLog, nStart, startFin, nStop,
                           stopWaits, startThread, gate, threadObs,
                           lastCheck>>

\* ---------------------------------------------------------------- rt_start
\* Variant: rt_start clears finished on entry.
rt_start_clears_finished ==
    /\ ownerPc = "idle" /\ ~aborted
    /\ nStart' = nStart + 1
    /\ startFin' = finished
    /\ finished' = FALSE
    /\ startLog' = <<>>
    /\ startThread' = 0
    /\ lastAdd' = NoAdd
    /\ IF npt > 0
       THEN \/ /\ sem' = [live |-> TRUE, val |-> 0]
               /\ gate' = [NoGate EXCEPT !.inits = 1]
               /\ ownerPc' = "start_create"
               /\ ret' = NoRet
               /\                /\ UNCHANGED <<ownerN, history>>
            \/ /\ Return("rt_start", -1)
               /\ gate' = NoGate
               /\                /\ UNCHANGED <<sem, ownerN>>
       ELSE /\ ownerPc' = "start_devs"
            /\ ownerN' = 0
            /\ gate' = NoGate
            /\ ret' = NoRet
            /\             /\ UNCHANGED <<sem, history>>
    /\     /\ UNCHANGED <<tables, ph, threadVars, aborted, stopLog, nStop,
                   stopWaits, threadObs, lastCheck>>

\* Variant: the thread is launched whenever a device is registered.
rt_start_thread_per_device ==
    /\ ownerPc = "idle" /\ ~aborted
    /\ nStart' = nStart + 1
    /\ startFin' = finished
    /\ startLog' = <<>>
    /\ startThread' = 0
    /\ lastAdd' = NoAdd
    /\ IF ndv > 0
       THEN /\ sem' = [live |-> TRUE, val |-> 0]
            /\ gate' = [NoGate EXCEPT !.inits = 1]
            /\ ownerPc' = "start_create"
            /\ ret' = NoRet
            /\             /\ UNCHANGED <<ownerN, history>>
       ELSE /\ ownerPc' = "start_devs"
            /\ ownerN' = 0
            /\ gate' = NoGate
            /\ ret' = NoRet
            /\             /\ UNCHANGED <<sem, history>>
    /\ UNCHANGED <<finished, tables, ph, threadVars, aborted, stopLog, nStop,
                   stopWaits, threadObs, lastCheck>>

\* Entry of rt_start, up to sem_init.
rt_start ==
    /\ ownerPc = "idle" /\ ~aborted
    /\ nStart' = nStart + 1
    /\ startFin' = finished
    /\ startLog' = <<>>
    /\ startThread' = 0
    /\ lastAdd' = NoAdd
    /\ IF npt > 0
       THEN \/ /\ sem' = [live |-> TRUE, val |-> 0]
               /\ gate' = [NoGate EXCEPT !.inits = 1]
               /\ ownerPc' = "start_create"
               /\ ret' = NoRet
               /\                /\ UNCHANGED <<ownerN, history>>
            \/ /\ Return("rt_start", -1)
               /\ gate' = NoGate
               /\                /\ UNCHANGED <<sem, ownerN>>
       ELSE /\ ownerPc' = "start_devs"
            /\ ownerN' = 0
            /\ gate' = NoGate
            /\ ret' = NoRet
            /\             /\ UNCHANGED <<sem, history>>
    /\ UNCHANGED <<finished, tables, ph, threadVars, aborted, stopLog, nStop,
                   stopWaits, threadObs, lastCheck>>

rt_start_pthread_create ==
    /\ ownerPc = "start_create" /\ ~aborted
    /\ \/ /\ \E t \in TIDs : rtPc[t] = "none"
          /\ rtPc' = [rtPc EXCEPT ![FreshThread] = "main"]
          /\ ph' = FreshThread
          /\ startThread' = FreshThread
          /\ ownerPc' = "start_wait"
          /\           /\ UNCHANGED <<sem, ret, gate, history>>
       \/ /\ sem' = [sem EXCEPT !.live = FALSE]
          /\ gate' = [gate EXCEPT !.destroys = @ + 1]
          /\ Return("rt_start", -1)
          /\           /\ UNCHANGED <<ph, rtPc, startThread>>
    /\ UNCHANGED <<finished, tables, ownerN, rtN, key, aborted, lastAdd,
                   startLog, stopLog, nStart, startFin, nStop, stopWaits,
                   threadObs, lastCheck>>

\* Variant: the owner does not wait for the semaphore.
rt_start_sem_trywait ==
    /\ ownerPc = "start_wait" /\ ~aborted
    /\ sem' = [sem EXCEPT !.val = Max(@ - 1, 0)]
    /\ gate' = [gate EXCEPT !.waits = @ + 1]
    /\ ownerPc' = "start_destroy"
    /\     /\ UNCHANGED <<finished, tables, ph, ownerN, ret, threadVars,
                   aborted, lastAdd, ownerObs, threadObs, lastCheck>>

\* sem_wait: returns once the count is positive; a signal interrupts it
\* (-1, EINTR) and rt_start aborts.
rt_start_sem_wait ==
    /\ ownerPc = "start_wait" /\ ~aborted
    /\ \/ /\ sem.val > 0
          /\ sem' = [sem EXCEPT !.val = @ - 1]
          /\ gate' = [gate EXCEPT !.waits = @ + 1]
          /\ ownerPc' = "start_destroy"
          /\ UNCHANGED <<finished, tables, ph, ownerN, ret, threadVars,
                         aborted, lastAdd, ownerObs, threadObs, lastCheck>>
       \/ Fault

rt_start_sem_destroy ==
    /\ ownerPc = "start_destroy" /\ ~aborted
    /\ sem' = [sem EXCEPT !.live = FALSE]
    /\ gate' = [gate EXCEPT !.destroys = @ + 1]
    /\ ownerPc' = "start_check"
    /\ UNCHANGED <<finished, tables, ph, ownerN, ret, threadVars, aborted,
                   lastAdd, ownerObs, threadObs, lastCheck>>

\* Variant: the result of the elevation is not looked at.
rt_start_ignore_finished ==
    /\ ownerPc = "start_check" /\ ~aborted
    /\ ownerPc' = "start_devs" /\ ownerN' = 0
    /\     /\ UNCHANGED <<rtFields, ret, threadVars, aborted, obsVars>>

rt_start_check_finished ==
    /\ ownerPc = "start_check" /\ ~aborted
    /\ IF finished
       THEN ownerPc' = "start_join" /\ UNCHANGED ownerN
       ELSE ownerPc' = "start_devs" /\ ownerN' = 0
    /\     /\ UNCHANGED <<rtFields, ret, threadVars, aborted, obsVars>>

rt_start_pthread_join ==
    /\ ownerPc = "start_join" /\ ~aborted
    /\ pthread_join("rt_start", -1)

\* Variant: the devices are started last to first.
rt_start_device_start_reversed ==
    /\ ownerPc = "start_devs" /\ ~aborted
    /\ IF ownerN < ndv
       THEN /\ startLog' = Append(startLog, dv[ndv - ownerN])
            /\ ownerN' = ownerN + 1
            /\             /\ UNCHANGED <<ownerPc, ret, history>>
       ELSE /\ Return("rt_start", 0)
            /\             /\ UNCHANGED <<ownerN, startLog>>
    /\ UNCHANGED <<rtFields, threadVars, aborted, lastAdd, stopLog, nStart,
                   startFin, nStop, stopWaits, startThread, gate, threadObs,
                   lastCheck>>

rt_start_device_start ==
    /\ ownerPc = "start_devs" /\ ~aborted
    /\ IF ownerN < ndv
       THEN /\ startLog' = Append(startLog, dv[ownerN + 1])
            /\ ownerN' = ownerN + 1
            /\             /\ UNCHANGED <<ownerPc, ret, history>>
       ELSE /\ Return("rt_start", 0)
            /\             /\ UNCHANGED <<ownerN, startLog>>
    /\ UNCHANGED <<rtFields, threadVars, aborted, lastAdd, stopLog, nStart,
                   startFin, nStop, stopWaits, startThread, gate, threadObs,
                   lastCheck>>

\* ----------------------------------------------------------------- rt_stop
\* Variant: finished is left as it is.
rt_stop_without_flag ==
    /\ ownerPc = "idle" /\ ~aborted
    /\ nStop' = nStop + 1
    /\ stopWaits' = waits
    /\ stopLog' = <<>>
    /\ lastAdd' = NoAdd
    /\ ret' = NoRet
    /\ ownerPc' = "stop_devs"
    /\ ownerN' = 0
    /\ UNCHANGED <<finished, tables, sem, ph, threadVars, aborted, startLog,
                   nStart, startFin, startThread, history, gate, threadObs,
                   lastCheck>>

rt_stop ==
    /\ ownerPc = "idle" /\ ~aborted
    /\ nStop' = nStop + 1
    /\ stopWaits' = waits
    /\ finished' = TRUE
    /\ stopLog' = <<>>
    /\ lastAdd' = NoAdd
    /\ ret' = NoRet
    /\ ownerPc' = "stop_devs"
    /\ ownerN' = 0
    /\ UNCHANGED <<tables, sem, ph, threadVars, aborted, startLog, nStart,
                   startFin, startThread, history, gate, threadObs,
                   lastCheck>>

\* Variant: rt_stop empties the poll table once the devices are stopped.
rt_stop_device_stop_clears_pt ==
    /\ ownerPc = "stop_devs" /\ ~aborted
    /\ IF ownerN < ndv
       THEN /\ stopLog' = Append(stopLog, dv[ownerN + 1])
            /\ ownerN' = ownerN + 1
            /\             /\ UNCHANGED <<ownerPc, ret, history, npt, pt>>
       ELSE /\ IF npt > 0
               THEN ownerPc' = "stop_join" /\ UNCHANGED <<ret, history>>
               ELSE Return("rt_stop", 0)
            /\ npt' = 0 /\ pt' = <<>>
            /\             /\ UNCHANGED <<ownerN, stopLog>>
    /\     /\ UNCHANGED <<finished, ndv, dv, nctl, ctl, sem, ph, threadVars,
                   aborted, lastAdd, startLog, nStart, startFin, nStop,
                   stopWaits, startThread, gate, threadObs, lastCheck>>

rt_stop_device_stop ==
    /\ ownerPc = "stop_devs" /\ ~aborted
    /\ IF ownerN < ndv
       THEN /\ stopLog' = Append(stopLog, dv[ownerN + 1])
            /\ ownerN' = ownerN + 1
            /\             /\ UNCHANGED <<ownerPc, ret, history>>
       ELSE /\ IF npt > 0
               THEN ownerPc' = "stop_join" /\ UNCHANGED <<ret, history>>
               ELSE Return("rt_stop", 0)
            /\             /\ UNCHANGED <<ownerN, stopLog>>
    /\ UNCHANGED <<rtFields, threadVars, aborted, lastAdd, startLog, nStart,
                   startFin, nStop, stopWaits, startThread, gate, threadObs,
                   lastCheck>>

\* Variant: rt_stop returns without waiting for the thread.
rt_stop_detach ==
    /\ ownerPc = "stop_join" /\ ~aborted
    /\ Return("rt_stop", 0)
    /\ UNCHANGED <<rtFields, ownerN, threadVars, aborted, lastAdd, startLog,
                   stopLog, nStart, startFin, nStop, stopWaits, startThread,
                   gate, threadObs, lastCheck>>

rt_stop_pthread_join ==
    /\ ownerPc = "stop_join" /\ ~aborted
    /\ pthread_join("rt_stop", 0)

\* ------------------------------------------------------------------ rt_main
\* Variant: the key is set before the scheduler is asked.
raise_priority_marks_first(t, ok) ==
    /\ key' = [key EXCEPT ![t] = TRUE]
    /\ elevated' = [elevated EXCEPT ![t] = IF ok THEN "ok" ELSE "failed"]

\* raise_priority on thread t: on success (ok) the key of t is set to true.
raise_priority(t, ok) ==
    /\ key' = IF ok THEN [key EXCEPT ![t] = TRUE] ELSE key
    /\ elevated' = [elevated EXCEPT ![t] = IF ok THEN "ok" ELSE "failed"]

\* Variant: finished is assigned the outcome of the elevation either way.
rt_main_raise_priority_assigns(t) ==
    /\ rtPc[t] = "main" /\ ~aborted
    /\ \E ok \in BOOLEAN :
          /\ raise_priority(t, ok)
          /\ finished' = ~ok
    /\ rtPc' = [rtPc EXCEPT ![t] = "post"]
    /\     /\ UNCHANGED <<tables, sem, ph, ownerVars, rtN, aborted, lastAdd,
                   ownerObs, gate, hlog, waits, lastPoll, lastCheck>>

\* if (raise_priority() == -1) rt->finished = true;
rt_main_raise_priority(t) ==
    /\ rtPc[t] = "main" /\ ~aborted
    /\ \E ok \in BOOLEAN :
          /\ raise_priority(t, ok)
          /\ finished' = IF ok THEN finished ELSE TRUE
    /\ rtPc' = [rtPc EXCEPT ![t] = "post"]
    /\     /\ UNCHANGED <<tables, sem, ph, ownerVars, rtN, aborted, lastAdd,
                   ownerObs, gate, hlog, waits, lastPoll, lastCheck>>

\* Variant: the gate is signalled twice.
rt_main_sem_post_twice(t) ==
    /\ rtPc[t] = "post" /\ ~aborted
    /\ sem' = [sem EXCEPT !.val = @ + 2]
    /\ gate' = [gate EXCEPT !.posts = @ + 2]
    /\ rtPc' = [rtPc EXCEPT ![t] = "while"]
    /\     /\ UNCHANGED <<finished, tables, ph, ownerVars, rtN, key, aborted,
                   lastAdd, ownerObs, threadObs, lastCheck>>

\* Variant: the gate is signalled only after a successful elevation.
rt_main_sem_post_if_elevated(t) ==
    /\ rtPc[t] = "post" /\ ~aborted
    /\ sem' = IF finished THEN sem ELSE [sem EXCEPT !.val = @ + 1]
    /\ gate' = IF finished THEN gate ELSE [gate EXCEPT !.posts = @ + 1]
    /\ rtPc' = [rtPc EXCEPT ![t] = "while"]
    /\     /\ UNCHANGED <<finished, tables, ph, ownerVars, rtN, key, aborted,
                   lastAdd, ownerObs, threadObs, lastCheck>>

\* sem_post; on a destroyed semaphore it is undefined: it fails (abort) or
\* writes to the dead object.
rt_main_sem_post(t) ==
    /\ rtPc[t] = "post" /\ ~aborted
    /\ \/ /\ sem' = [sem EXCEPT !.val = @ + 1]
          /\ gate' = [gate EXCEPT !.posts = @ + 1]
          /\ rtPc' = [rtPc EXCEPT ![t] = "while"]
          /\ UNCHANGED <<finished, tables, ph, ownerVars, rtN, key, aborted,
                         lastAdd, ownerObs, threadObs, lastCheck>>
       \/ ~sem.live /\ Fault

\* while (!rt->finished)
rt_main_while(t) ==
    /\ rtPc[t] = "while" /\ ~aborted
    /\ rtPc' = [rtPc EXCEPT ![t] = IF finished THEN "exit" ELSE "poll"]
    /\     /\ UNCHANGED <<rtFields, ownerVars, rtN, key, aborted, obsVars>>

\* Variant: any failure of poll() is retried.
rt_main_poll_retries_errors(t, r) ==
    /\ rtPc[t] = "poll" /\ ~aborted
    /\ r = "ok" => waits[t] < MaxCycles
    /\ lastPoll' = [lastPoll EXCEPT ![t] = r]
    /\ waits' = [waits EXCEPT ![t] = IF r = "ok" THEN @ + 1 ELSE @]
    /\ rtPc' = [rtPc EXCEPT ![t] = IF r = "ok" THEN "ctl" ELSE "while"]
    /\ rtN' = [rtN EXCEPT ![t] = 0]
    /\ UNCHANGED <<rtFields, ownerVars, key, aborted, lastAdd, ownerObs, gate,
                   hlog, elevated, lastCheck>>

\* Variant: an interrupted poll() falls through to the handlers.
rt_main_poll_eintr_dispatches(t, r) ==
    /\ rtPc[t] = "poll" /\ ~aborted
    /\ r = "ok" => waits[t] < MaxCycles
    /\ lastPoll' = [lastPoll EXCEPT ![t] = r]
    /\ waits' = [waits EXCEPT ![t] = IF r = "ok" THEN @ + 1 ELSE @]
    /\ rtPc' = [rtPc EXCEPT ![t] =
                  CASE r = "ok" -> "ctl"
                    [] r = "eintr" -> "ctl"
                    [] r = "error" -> "exit"]
    /\ rtN' = [rtN EXCEPT ![t] = 0]
    /\ UNCHANGED <<rtFields, ownerVars, key, aborted, lastAdd, ownerObs, gate,
                   hlog, elevated, lastCheck>>

\* Variant: after a successful poll() the devices are handled at once.
rt_main_poll_devices_first(t, r) ==
    /\ rtPc[t] = "poll" /\ ~aborted
    /\ r = "ok" => waits[t] < MaxCycles
    /\ lastPoll' = [lastPoll EXCEPT ![t] = r]
    /\ waits' = [waits EXCEPT ![t] = IF r = "ok" THEN @ + 1 ELSE @]
    /\ rtPc' = [rtPc EXCEPT ![t] =
                  CASE r = "ok" -> "dev"
                    [] r = "eintr" -> "while"
                    [] r = "error" -> "exit"]
    /\ rtN' = [rtN EXCEPT ![t] = 0]
    /\ UNCHANGED <<rtFields, ownerVars, key, aborted, lastAdd, ownerObs, gate,
                   hlog, elevated, lastCheck>>

\* poll(rt->pt, rt->npt, -1) returns: r is "ok" (some entries are ready;
\* rt_main never reads which), "eintr" (-1 with EINTR) or "error" (-1
\* otherwise).
rt_main_poll(t, r) ==
    /\ rtPc[t] = "poll" /\ ~aborted
    /\ r = "ok" => waits[t] < MaxCycles
    /\ lastPoll' = [lastPoll EXCEPT ![t] = r]
    /\ waits' = [waits EXCEPT ![t] = IF r = "ok" THEN @ + 1 ELSE @]
    /\ rtPc' = [rtPc EXCEPT ![t] =
                  CASE r = "ok" -> "ctl"
                    [] r = "eintr" -> "while"
                    [] r = "error" -> "exit"]
    /\ rtN' = [rtN EXCEPT ![t] = 0]
    /\ UNCHANGED <<rtFields, ownerVars, key, aborted, lastAdd, ownerObs, gate,
                   hlog, elevated, lastCheck>>

Call(kind, slot, id) == [k |-> kind, i |-> slot, id |-> id]

\* Variant: the controller pass is abandoned as soon as finished is set.
rt_main_controller_handle_until_finished(t) ==
    /\ rtPc[t] = "ctl" /\ ~aborted
    /\ IF finished
       THEN /\ rtPc' = [rtPc EXCEPT ![t] = "while"]
            /\             /\ UNCHANGED <<rtN, hlog>>
       ELSE IF rtN[t] < nctl
       THEN /\ hlog' = [hlog EXCEPT ![t] =
                          Append(@, Call("ctl", rtN[t], ctl[rtN[t] + 1]))]
            /\ rtN' = [rtN EXCEPT ![t] = @ + 1]
            /\ UNCHANGED rtPc
       ELSE /\ rtPc' = [rtPc EXCEPT ![t] = "dev"]
            /\ rtN' = [rtN EXCEPT ![t] = 0]
            /\ UNCHANGED hlog
    /\ UNCHANGED <<rtFields, ownerVars, key, aborted, lastAdd, ownerObs, gate,
                   waits, lastPoll, elevated, lastCheck>>

\* for (n = 0; n < rt->nctl; n++) controller_handle(rt->ctl[n]);
rt_main_controller_handle(t) ==
    /\ rtPc[t] = "ctl" /\ ~aborted
    /\ IF rtN[t] < nctl
       THEN /\ hlog' = [hlog EXCEPT ![t] =
                          Append(@, Call("ctl", rtN[t], ctl[rtN[t] + 1]))]
            /\ rtN' = [rtN EXCEPT ![t] = @ + 1]
            /\ UNCHANGED rtPc
       ELSE /\ rtPc' = [rtPc EXCEPT ![t] = "dev"]
            /\ rtN' = [rtN EXCEPT ![t] = 0]
            /\ UNCHANGED hlog
    /\ UNCHANGED <<rtFields, ownerVars, key, aborted, lastAdd, ownerObs, gate,
                   waits, lastPoll, elevated, lastCheck>>

\* for (n = 0; n < rt->ndv; n++) device_handle(rt->dv[n]);
rt_main_device_handle(t) ==
    /\ rtPc[t] = "dev" /\ ~aborted
    /\ IF rtN[t] < ndv
       THEN /\ hlog' = [hlog EXCEPT ![t] =
                          Append(@, Call("dev", rtN[t], dv[rtN[t] + 1]))]
            /\ rtN' = [rtN EXCEPT ![t] = @ + 1]
            /\ UNCHANGED rtPc
       ELSE /\ rtPc' = [rtPc EXCEPT ![t] = "while"]
            /\             /\ UNCHANGED <<rtN, hlog>>
    /\ UNCHANGED <<rtFields, ownerVars, key, aborted, lastAdd, ownerObs, gate,
                   waits, lastPoll, elevated, lastCheck>>

\* rt_not_allowed called on thread th: abort() exactly if the key of the
\* calling thread holds true.
rt_not_allowed(th) ==
    /\ ~aborted
    /\ th \in TIDs => Running(th)
    /\ lastCheck' = [thread |-> th, fatal |-> key[th], made |-> TRUE]
    /\ aborted' = key[th]
    /\ UNCHANGED <<rtFields, ownerVars, threadVars, lastAdd, ownerObs, gate,
                   threadObs>>

\* ---------------------------------------------------------- specifications
PollResults == {"ok", "eintr", "error"}

OwnerStep ==
    \/ rt_start_pthread_create
    \/ rt_start_sem_wait
    \/ rt_start_sem_destroy
    \/ rt_start_check_finished
    \/ rt_start_pthread_join
    \/ rt_start_device_start
    \/ rt_stop_device_stop
    \/ rt_stop_pthread_join

ThreadStep(t) ==
    \/ rt_main_raise_priority(t)
    \/ rt_main_sem_post(t)
    \/ rt_main_while(t)
    \/ \E r \in PollResults : rt_main_poll(t, r)
    \/ rt_main_controller_handle(t)
    \/ rt_main_device_handle(t)

\* The lifecycle: registrations, then one run of the handler (rt_start and
\* rt_stop are each called at most once, in either order).
Register == Registering /\ (AddDevice \/ AddController)

CallStart == nStart = 0 /\ rt_start
CallStop == nStop = 0 /\ rt_stop

Next ==
    \/ Register
    \/ CallStart
    \/ CallStop
    \/ OwnerStep
    \/ \E t \in TIDs : ThreadStep(t)

Spec == Init /\ [][Next]_vars

\* The lifecycle with calls of rt_not_allowed from any thread.
NextAssert == Next \/ \E th \in AllThreads : rt_not_allowed(th)

SpecAssert == Init /\ [][NextAssert]_vars

\* Scheduling: a step of the owner or of a dispatch thread that is possible
\* is eventually taken, short of a fault; poll() returns when the
\* environment makes it, and it does once device_stop has been called on a
\* device (the devices make the wait return when stopped).
OwnerProgress == OwnerStep /\ ~aborted'
ThreadProgress(t) ==
    /\ \/ rt_main_raise_priority(t)
       \/ rt_main_sem_post(t)
       \/ rt_main_while(t)
       \/ rt_main_controller_handle(t)
       \/ rt_main_device_handle(t)
    /\ ~aborted'
PollAfterStop(t) ==
    /\ stopLog # <<>>
    /\ \E r \in PollResults : rt_main_poll(t, r)

Fairness ==
    /\ WF_vars(OwnerProgress)
    /\ \A t \in TIDs : WF_vars(ThreadProgress(t))
    /\ \A t \in TIDs : WF_vars(PollAfterStop(t))

SpecLive == Spec /\ Fairness

\* The lifecycle with rt_start called a second time, at any point: while the
\* first run has not been stopped, after rt_stop, or after a failed rt_start.
CallStartRepeat == nStart \in {0, 1} /\ rt_start

\* Registrations that keep every table within its element count.
RegisterWithin ==
    /\ Register
    /\ ndv' <= CAP_DEV /\ nctl' <= CAP_CTL /\ npt' <= CAP_PT

NextRepeat ==
    \/ RegisterWithin
    \/ CallStartRepeat
    \/ CallStop
    \/ OwnerStep
    \/ \E t \in TIDs : ThreadStep(t)

SpecRepeat == Init /\ [][NextRepeat]_vars

\* ------------------------------------------------------------------ claims
StartPcs == {"start_create", "start_wait", "start_destroy", "start_check",
             "start_join", "start_devs"}
StopPcs == {"stop_devs", "stop_join"}

\* C1: once rt_start has created the dispatch thread, that thread signals
\* the startup gate whether or not its elevation succeeded, and the owner's
\* wait on the gate returns: rt_start does not stay blocked in sem_wait
\* (the process is killed if a signal interrupts the wait).
C1_GateAlwaysSignalled ==
    (ownerPc = "start_wait" /\ startThread \in TIDs)
        ~> (aborted \/ (gate.posts = 1 /\ ownerPc = "start_destroy"))

\* The owner got through the gate of a thread whose elevation failed.
C1_Witness ==
    /\ ownerPc = "start_destroy"
    /\ startThread \in TIDs
    /\ elevated[startThread] = "failed"
    /\ gate.posts = 1

\* C2: when the elevation of the dispatch thread fails, that thread never
\* enters the dispatch loop (no poll, no handler call), the rt_start that
\* created it invokes no device_start, and once that rt_start has returned it
\* has returned -1 with the thread joined.
C2_ElevationFailure ==
    \A t \in TIDs :
        elevated[t] = "failed" =>
            /\ rtPc[t] \in {"post", "while", "exit", "joined"}
            /\ waits[t] = 0 /\ lastPoll[t] = "none" /\ hlog[t] = <<>>
            /\ t = startThread =>
                  /\ startLog = <<>>
                  /\ ownerPc # "start_devs"
                  /\ \A i \in DOMAIN history :
                        history[i].fn = "rt_start" =>
                            /\ history[i].val = -1
                            /\ rtPc[t] = "joined"

\* rt_start has returned after an elevation failure.
C2_Witness ==
    /\ startThread \in TIDs
    /\ elevated[startThread] = "failed"
    /\ ret = Ret("rt_start", -1)
    /\ ndv = 2

WithinCapacity == ndv <= CAP_DEV /\ nctl <= CAP_CTL /\ npt <= CAP_PT

C4_NoHandlesNoThread ==
    npt = 0 =>
        /\ \A t \in TIDs : rtPc[t] = "none" /\ hlog[t] = <<>>
        /\ ph = 0 /\ startThread = 0
        /\ sem = [live |-> FALSE, val |-> 0] /\ gate = NoGate
        /\ \A i \in DOMAIN history :
              history[i].fn = "rt_start" =>
                  (history[i].val = 0 /\ startLog = dv)

\* rt_start has returned with two devices and a controller registered and
\* no poll entry.
C4_Witness ==
    /\ npt = 0 /\ ndv = 2 /\ nctl = 1
    /\ ret = Ret("rt_start", 0)

\* One dispatch cycle: every controller, then every device, in table order.
Cycle ==
    [i \in 1..nctl |-> Call("ctl", i - 1, ctl[i])]
        \o [i \in 1..ndv |-> Call("dev", i - 1, dv[i])]
InCycle(t) == rtPc[t] \in {"ctl", "dev"}

\* C5: the handler calls of a dispatch thread are, cycle after cycle, all
\* registered controllers in registration order and then all registered
\* devices in registration order; device_handle is not called in a cycle
\* before every controller has been handled in it.
C5_ControllersBeforeDevices ==
    \A t \in TIDs :
        /\ \A j \in DOMAIN hlog[t] :
              hlog[t][j] = Cycle[((j - 1) % Len(Cycle)) + 1]
        /\ rtPc[t] = "ctl" =>
              Len(hlog[t]) = (waits[t] - 1) * Len(Cycle) + rtN[t]
        /\ rtPc[t] = "dev" =>
              Len(hlog[t]) = (waits[t] - 1) * Len(Cycle) + nctl + rtN[t]

\* The second cycle, with two controllers handled and the device pass begun.
C5_Witness ==
    \E t \in TIDs :
        /\ waits[t] = 2 /\ rtPc[t] = "dev" /\ rtN[t] = 1
        /\ nctl = 2 /\ ndv = 2

\* C6 as stated: the device, controller and poll tables never hold more
\* entries than they have elements.
C6_TablesWithinCapacity ==
    /\ ndv <= CAP_DEV
    /\ nctl <= CAP_CTL
    /\ npt <= CAP_PT

\* A step of rt_add_device that returns.
AddDeviceReturns ==
    /\ ret'.fn = "rt_add_device"
    /\ <<ret, lastAdd, tables>>' # <<ret, lastAdd, tables>>

C8_StopReturns ==
    /\ [](history = <<Ret("rt_start", 0), Ret("rt_stop", 0)>>
            => (startThread # 0 => rtPc[startThread] = "joined"))
    /\ (ownerPc \in StopPcs /\ history = <<Ret("rt_start", 0)>>)
          ~> (ownerPc = "idle" /\ Len(history) = 2)

\* rt_stop has returned after joining a thread that ran a cycle.
C8_Witness ==
    /\ history = <<Ret("rt_start", 0), Ret("rt_stop", 0)>>
    /\ startThread \in TIDs
    /\ rtPc[startThread] = "joined"
    /\ waits[startThread] > 0
    /\ lastPoll[startThread] = "ok"

\* C9: the key holds true exactly on a dispatch thread whose elevation has
\* succeeded; rt_not_allowed terminates the process exactly when called on
\* such a thread, and on the owner, on another thread or on a dispatch
\* thread whose elevation failed it changes nothing.
C9_AbortOnlyOnRealtimeThread ==
    /\ [](\A th \in AllThreads :
             key[th] <=> (th \in TIDs /\ elevated[th] = "ok"))
    /\ [][ lastCheck' # lastCheck =>
             /\ aborted' <=> ( /\ lastCheck'.thread \in TIDs
                               /\ elevated[lastCheck'.thread] = "ok" )
             /\ lastCheck'.fatal = aborted'
             /\ UNCHANGED <<rtFields, ownerVars, threadVars, lastAdd,
                            ownerObs, gate, threadObs>>
         ]_vars

\* rt_not_allowed was called on the realtime thread and ended the process.
C9_Witness ==
    /\ lastCheck.made /\ lastCheck.fatal /\ aborted
    /\ lastCheck.thread \in TIDs

Count(seq, c) == Cardinality({j \in DOMAIN seq : seq[j] = c})

\* C10: between cycles, a dispatch thread that has had N successful polls
\* has called controller_handle N times on every registered controller and
\* device_handle N times on every registered device; a poll interrupted by
\* a signal leads to no handler call and, unless finished is set, to
\* another poll.
C10_HandlersPerWait ==
    /\ [](\A t \in TIDs :
             ~InCycle(t) =>
                /\ Len(hlog[t]) = waits[t] * (nctl + ndv)
                /\ \A i \in 1..nctl :
                      Count(hlog[t], Call("ctl", i - 1, ctl[i])) = waits[t]
                /\ \A i \in 1..ndv :
                      Count(hlog[t], Call("dev", i - 1, dv[i])) = waits[t])
    /\ [][ \A t \in TIDs :
             /\ (rtPc[t] = "poll" /\ rtPc'[t] # "poll"
                      /\ lastPoll'[t] = "eintr")
                   => /\ rtPc'[t] = "while"
                      /\ hlog'[t] = hlog[t] /\ waits'[t] = waits[t]
             /\ (rtPc[t] = "while" /\ rtPc'[t] # "while"
                      /\ lastPoll[t] = "eintr" /\ ~finished)
                   => rtPc'[t] = "poll"
         ]_vars

\* Two devices, one of which reported no poll entry, and one controller,
\* after two cycles.
C10_Witness ==
    \E t \in TIDs :
        /\ waits[t] = 2 /\ rtPc[t] = "while"
        /\ ndv = 2 /\ npt = 1 /\ nctl = 1

\* A join is attempted only on a thread that was created and not joined yet.
Joinable == ph \in TIDs /\ rtPc[ph] \notin {"none", "joined"}

\* C11 as stated: rt_stop attempts pthread_join only when an earlier rt_start
\* launched a dispatch thread that has not been joined yet; on a handler
\* that was never started, or whose rt_start failed and joined the thread,
\* rt_stop only sets finished and calls device_stop on each device.
C11_StopJoinsOnlyLaunchedThread ==
    ownerPc = "stop_join" => Joinable

\* C12 as stated: at any time at most one dispatch thread is running,
\* whatever rt_start and rt_stop calls the owner makes, a second rt_start
\* during a run included.
C12_AtMostOneThread ==
    Cardinality({t \in TIDs : Running(t)}) <= 1

\* The latest rt_start was called with finished set: after rt_stop had been
\* called, or after an rt_start had failed on the elevation of its thread.
LaterStart == nStart >= 1 /\ startFin

\* Such an rt_start has returned -1, started no device and had no cycle run.
StartRefused ==
    /\ startLog = <<>> /\ ownerPc # "start_devs"
    /\ (ownerPc = "idle" /\ ret.fn = "rt_start") => ret.val = -1
    /\ startThread \in TIDs =>
          (waits[startThread] = 0 /\ hlog[startThread] = <<>>)

\* C13 as stated: once rt_stop has been called or an rt_start has failed on
\* elevation, a later rt_start returns -1, calls no device_start and has no
\* dispatch cycle run, with or without poll entries registered.
C13_NeverRestarts ==
    LaterStart => StartRefused

\* C13, amended: that holds when a poll entry is registered; with none, the
\* later rt_start calls device_start on every device and returns 0.
C13_NeverRestartsWithHandles ==
    /\ (LaterStart /\ npt > 0) => StartRefused
    /\ (LaterStart /\ npt = 0 /\ ownerPc = "idle" /\ ret.fn = "rt_start")
          => (ret.val = 0 /\ startLog = dv)

\* rt_start after rt_stop, with a thread whose elevation succeeded, has
\* returned -1.
C13_Witness ==
    /\ LaterStart /\ npt > 0 /\ nStop = 1
    /\ ret = Ret("rt_start", -1)
    /\ startThread \in TIDs
    /\ elevated[startThread] = "ok"
    /\ rtPc[startThread] = "joined"

\* The step that enters rt_stop, and the step of thread t that ends its
\* raise_priority with a failure.
StopEntered == ownerPc = "idle" /\ ownerPc' = "stop_devs"
ElevationFailed(t) ==
    rtPc[t] = "main" /\ rtPc'[t] = "post" /\ elevated'[t] = "failed"

\* C14: finished never goes from true to false; it becomes true only in
\* rt_stop and in a dispatch thread whose elevation failed, and both of
\* these leave it true.
C14_FinishedMonotonic ==
    [][ /\ finished => finished'
        /\ finished' # finished =>
              (StopEntered \/ \E t \in TIDs : ElevationFailed(t))
        /\ StopEntered => finished'
        /\ \A t \in TIDs : ElevationFailed(t) => finished'
      ]_vars

\* finished was set by a dispatch thread, rt_stop not having been called, and
\* rt_start was called again.
C14_Witness ==
    /\ finished /\ nStop = 0 /\ nStart = 2
    /\ \E t \in TIDs : elevated[t] = "failed"

\* The gate has been initialised, signalled, waited on and destroyed, once
\* each.
GateUsedOnce == gate = [inits |-> 1, posts |-> 1, waits |-> 1, destroys |-> 1]

\* C15: when rt_start has launched a thread, it calls no device_start
\* before that thread has signalled the gate and rt_start, past its wait,
\* has read finished as false; the elevation of the thread has then
\* succeeded.
C15_StartAfterElevation ==
    /\ [](startThread \in TIDs =>
            /\ ownerPc \in (StartPcs \ {"start_devs"}) => startLog = <<>>
            /\ (startLog # <<>> \/ ownerPc = "start_devs") =>
                  /\ GateUsedOnce
                  /\ elevated[startThread] = "ok"
                  /\ rtPc[startThread] \notin {"none", "main", "post"})
    /\ [][(npt > 0 /\ ownerPc' = "start_devs" /\ ownerPc # "start_devs") =>
            /\ ownerPc = "start_check" /\ startThread \in TIDs
            /\ ~finished
         ]_vars

\* The second device is being started while the thread is in its loop.
C15_Witness ==
    /\ startThread \in TIDs
    /\ ownerPc = "start_devs" /\ Len(startLog) = 2
    /\ rtPc[startThread] = "poll"

\* C16: a cycle that has begun runs the whole controller pass and the whole
\* device pass whatever finished becomes meanwhile; once finished is set no
\* thread goes from the loop test to another poll, and after the call of
\* rt_stop a thread completes at most one more cycle.
C16_StopAtLoopBoundary ==
    /\ [](\A t \in TIDs :
             /\ nStop > 0 => waits[t] <= stopWaits[t] + 1
             /\ rtPc[t] \in {"while", "exit", "joined"} =>
                   Len(hlog[t]) = waits[t] * (nctl + ndv))
    /\ [][ \A t \in TIDs :
             /\ (rtPc[t] = "ctl" /\ rtPc'[t] # "ctl") =>
                   (rtN[t] = nctl /\ rtPc'[t] = "dev")
             /\ (rtPc[t] = "dev" /\ rtPc'[t] # "dev") =>
                   (rtN[t] = ndv /\ rtPc'[t] = "while")
             /\ (rtPc[t] = "while" /\ rtPc'[t] # "while") =>
                   (rtPc'[t] = IF finished THEN "exit" ELSE "poll")
         ]_vars

\* A thread has run one more cycle after rt_stop was called, and is joined.
C16_Witness ==
    \E t \in TIDs :
        /\ nStop = 1 /\ stopWaits[t] = 1 /\ waits[t] = 2
        /\ rtPc[t] = "joined"
        /\ nctl = 1 /\ ndv = 2

\* The step in which poll() fails on thread t with an error other than EINTR.
PollFailed(t) ==
    rtPc[t] = "poll" /\ rtPc'[t] # "poll" /\ lastPoll'[t] = "error"

\* C17: when poll() fails with an error other than EINTR the thread returns
\* from rt_main: no handler is called for that poll, finished and the
\* owner's state are left alone, and the thread polls and dispatches no
\* more; an rt_stop after that calls device_stop on every device, joins the
\* thread and returns.
C17_PollErrorEndsThread ==
    /\ [][ \A t \in TIDs :
             PollFailed(t) =>
                /\ rtPc'[t] = "exit"
                /\ hlog' = hlog /\ waits' = waits
                /\ UNCHANGED <<rtFields, ownerVars, ownerObs, gate>>
         ]_vars
    /\ [](\A t \in TIDs :
             lastPoll[t] = "error" => rtPc[t] \in {"exit", "joined"})
    /\ (ownerPc \in StopPcs /\ startThread \in TIDs
            /\ lastPoll[startThread] = "error")
          ~> ( /\ ownerPc = "idle" /\ ret = Ret("rt_stop", 0)
               /\ stopLog = dv
               /\ startThread \in TIDs
               /\ rtPc[startThread] = "joined" )

\* rt_stop has returned after the thread ended on a failed poll() that
\* followed one cycle; finished was not set when the thread ended.
C17_Witness ==
    /\ startThread \in TIDs
    /\ lastPoll[startThread] = "error" /\ waits[startThread] = 1
    /\ stopWaits[startThread] = 1
    /\ history = <<Ret("rt_start", 0), Ret("rt_stop", 0)>>
    /\ stopLog = dv /\ ndv = 2
    /\ rtPc[startThread] = "joined"

\* C18: during an rt_start that launches a thread the semaphore is
\* initialised to 0, signalled once by the thread, waited on once by the
\* owner and destroyed by the owner after the signal; its count is 0 or 1,
\* and no thread is about to signal it, or signals it, once it is destroyed.
C18_GateUsedExactlyOnce ==
    /\ [](/\ sem.val \in {0, 1}
          /\ gate.inits <= 1 /\ gate.destroys <= gate.inits
          /\ gate.waits <= gate.posts /\ gate.posts <= gate.inits
          /\ startThread \in TIDs =>
                /\ gate.destroys <= gate.waits
                /\ ownerPc \notin StartPcs => GateUsedOnce
          /\ sem.live => ownerPc \in {"start_create", "start_wait",
                                      "start_destroy"}
          /\ \A t \in TIDs : rtPc[t] \in {"main", "post"} =>
                (sem.live /\ t = startThread /\ gate.posts = 0))
    /\ [][ /\ gate'.inits > gate.inits => sem' = [live |-> TRUE, val |-> 0]
           /\ gate'.posts > gate.posts =>
                 /\ sem.live /\ sem'.val = sem.val + 1
                 /\ rtPc[startThread] = "post"
           /\ gate'.waits > gate.waits =>
                 (sem.live /\ sem.val = 1 /\ sem'.val = 0)
           /\ gate'.destroys > gate.destroys => (sem.live /\ ~sem'.live)
         ]_vars

\* The second rt_start has used its gate once, as the first had.
C18_Witness ==
    /\ nStart = 2 /\ history # <<>> /\ history[1] = Ret("rt_start", 0)
    /\ startThread \in TIDs /\ ownerPc = "start_check"
    /\ GateUsedOnce /\ ~sem.live /\ sem.val = 0

\* A step of the dispatch thread t, and a step inside rt_start or rt_stop.
StepOfThread(t) == Running(t) /\ <<rtPc[t], rtN[t]>>' # <<rtPc[t], rtN[t]>>
StepOfStartStop ==
    /\ ownerPc \in StartPcs \cup StopPcs \/ ownerPc' \in StartPcs \cup StopPcs
    /\ <<ownerPc, ownerN, ret>>' # <<ownerPc, ownerN, ret>>

\* C19: rt_start, rt_stop and the dispatch thread leave the three tables and
\* their counts as they are; of the fields of struct rt a dispatch thread
\* writes finished (in its raise_priority step) and the semaphore (in its
\* sem_post step) and nothing else, and the owner writes ph and the tables,
\* which no thread writes.
C19_TablesFrozenAfterStart ==
    [][ /\ StepOfStartStop => tables' = tables
        /\ \A t \in TIDs :
              StepOfThread(t) =>
                 /\ tables' = tables
                 /\ ph' = ph
                 /\ sem' # sem => (rtPc[t] = "post" /\ sem'.live = sem.live)
                 /\ finished' # finished => rtPc[t] = "main"
        /\ tables' # tables =>
              (ownerPc = "idle" /\ ownerPc' = "idle" /\ Registering)
      ]_vars

\* A run with full tables is over and the tables are as registered.
C19_Witness ==
    /\ history = <<Ret("rt_start", 0), Ret("rt_stop", 0)>>
    /\ startThread \in TIDs /\ waits[startThread] = 2
    /\ ndv = 2 /\ nctl = 2 /\ npt = 2
    /\ dv = <<1, 2>> /\ ctl = <<1, 2>> /\ Len(pt) = 2

\* rt_start returned 0 and the rt_stop after it has returned.
RunOver == history = <<Ret("rt_start", 0), Ret("rt_stop", 0)>>

\* C20: once the rt_stop that follows a successful rt_start has returned, no
\* controller_handle or device_handle call is made, no poll() returns and no
\* dispatch thread is left running.
C20_NoHandlerAfterStop ==
    /\ [](RunOver => \A t \in TIDs : ~Running(t))
    /\ [][RunOver => (hlog' = hlog /\ waits' = waits /\ lastPoll' = lastPoll)
         ]_vars

\* The run is over after a thread has dispatched twice.
C20_Witness ==
    /\ RunOver
    /\ startThread \in TIDs
    /\ Len(hlog[startThread]) = 2 * (nctl + ndv)
    /\ nctl = 1 /\ ndv = 1

====
